---- MODULE Spec2Model ----
(***************************************************************************)
(* Domain availability resolution, result cache and watch monitors of the  *)
(* namesearch backend.                                                     *)
(*                                                                         *)
(* Time is counted in seconds.  The WHOIS library and the name resolver    *)
(* are external: every call draws its answer from a bounded set.  Names    *)
(* are taken to denote what the caller writes: a call goes to the function *)
(* it names and returns what that function returns.                        *)
(***************************************************************************)
EXTENDS Integers, Sequences, FiniteSets, TLC

VARIABLES
    now,         \* wall clock (datetime.utcnow / datetime.now), seconds
    watches,     \* domain_watches table: watch id -> committed row
    events,      \* calls of the notification service, in order
    lookups,     \* external registry (WHOIS) queries made, in order
    lastCheck,   \* the latest check made: its input and what it concluded
    cache,       \* utils.cache._cache: domain -> entry
    svc,         \* DomainMonitorService: _monitoring, the loop task
    reqs,        \* HTTP requests received so far
    inbox,       \* requests received while the event loop was busy, in order
    mon,         \* DomainMonitor: running, active_monitors and the tasks made
    limiter      \* RateLimiter: requests_log and the answers it has given

vars == <<now, watches, events, lookups, lastCheck, cache, svc, reqs, inbox, mon, limiter>>

(*************************** bounds ***************************************)
NumWatches == 3
MaxCycles == 2
MaxRequests == 1
MaxResolutions == 3
MaxApplications == 2
MaxCalls == 6
MaxMonitorCalls == 5

(*************************** program constants ****************************)
DefaultCheckInterval == 300
ErrorBackoff == 60
ExpiryHorizonDays == 30
TtlAvailableHours == 1
TtlRegisteredHours == 24
DefaultTtlHours == 1
DefaultCheckFrequency == 60
MinCheckFrequency == 5

SecondsPerDay == 24 * 60 * 60
SecondsPerHour == 60 * 60

None == "None"
NoTime == 0 - 1

WatchIds == 1..NumWatches
Domains == {"a.com", "b.com"}
Users == {1, 2}

(*************************** external registry ****************************)
(* What whois.whois(domain) can answer.  kind: "record" (a parsed entry),  *)
(* "empty" (a falsy result), "nomatch" (PywhoisError whose text holds      *)
(* "No match"), "error" (any other exception: timeout, transport, parse).  *)
(* dn: the domain_name field: "missing" (key absent), "none" (None),       *)
(* "list" (a list of names), "com", "ng" (a string with that TLD).         *)
(* phrase: the availability phrase str(whois_data).lower() contains.       *)
(* tok: the status tokens: "none", "lock" (one equals a registered         *)
(* indicator), "other".  exp: the expiration_date field with its Python    *)
(* type: "none", "datetime", "list" (of datetimes), "iso" (naive ISO       *)
(* string), "iso_z" (ISO string with a Z / UTC offset), "bad" (a string    *)
(* fromisoformat rejects).                                                 *)
Exp(ty, at) == [ty |-> ty, at |-> at]

ExpNone == Exp("none", 0)

Answer(kind, dn, phrase, tok, exp, created, ns) ==
    [kind |-> kind, dn |-> dn, phrase |-> phrase, tok |-> tok, exp |-> exp,
     created |-> created, ns |-> ns]

NoMatchError == Answer("nomatch", "missing", "", "none", ExpNone, FALSE, FALSE)

LookupError == Answer("error", "missing", "", "none", ExpNone, FALSE, FALSE)

EmptyAnswer == Answer("empty", "missing", "", "none", ExpNone, FALSE, FALSE)

Record(dn, phrase, tok, exp, created, ns) ==
    Answer("record", dn, phrase, tok, exp, created, ns)

AVAILABLE == "available"
REGISTERED == "registered"
UNKNOWN == "unknown"

AvailabilityIndicators == {"no match", "not found"}

(* exp_date[0] of a list, then isinstance(exp_date, datetime) and exp_date < now *)
ExpiredDatetime(exp, t) == exp.ty \in {"datetime", "list"} /\ exp.at < t

(* WHOISService._determine_domain_status; "raise" stands for the           *)
(* AttributeError of None.lower() / list.lower().                          *)
DetermineDomainStatus(a, t) ==
    IF a.dn = "missing" THEN UNKNOWN
    ELSE IF a.dn \in {"none", "list"} THEN "raise"
    ELSE IF a.dn = "ng" THEN (IF a.phrase = "not found" THEN AVAILABLE ELSE REGISTERED)
    ELSE IF a.phrase \in AvailabilityIndicators THEN AVAILABLE
    ELSE IF a.tok = "lock" THEN REGISTERED
    ELSE IF ExpiredDatetime(a.exp, t) THEN AVAILABLE
    ELSE IF a.created THEN REGISTERED
    ELSE IF a.ns THEN REGISTERED
    ELSE UNKNOWN

(* The dict a lookup hands to its caller: status, expiration_date. *)
WhoisData(status, exp) == [status |-> status, exp |-> exp]

Raised == [raised |-> TRUE, data |-> WhoisData(UNKNOWN, ExpNone)]

Returned(data) == [raised |-> FALSE, data |-> data]

(* WHOISService.lookup_domain: the parsed data with its status, the        *)
(* "No match" dict, or an HTTPException.                                   *)
LookupDomain(a, t) ==
    IF a.kind = "nomatch" THEN Returned(WhoisData(AVAILABLE, ExpNone))
    ELSE IF a.kind = "error" THEN Raised
    ELSE IF DetermineDomainStatus(a, t) = "raise" THEN Raised
    ELSE Returned(WhoisData(DetermineDomainStatus(a, t), a.exp))

(* WHOISService.check_domain_availability *)
CheckDomainAvailability(a, t) ==
    IF LookupDomain(a, t).raised
    THEN [is_available |-> FALSE, status |-> UNKNOWN]
    ELSE [is_available |-> LookupDomain(a, t).data.status = AVAILABLE,
          status |-> LookupDomain(a, t).data.status]

(* is_domain_available after a cache miss: the DNS probe, then WHOIS.      *)
(* cached: whether the result reaches cache_domain (the expired branch     *)
(* returns before it).                                                     *)
NoData == Answer("nodata", "missing", "", "none", ExpNone, FALSE, FALSE)

Resolved(avail, data, cached) == [is_available |-> avail, whois_data |-> data, cached |-> cached]

(* is_domain_available with the probe's answer disregarded: every miss     *)
(* goes on to the registry answer                                          *)
ResolveDomainUnprobed(probe, a, t) ==
    IF a.kind \in {"nomatch", "error"} THEN Resolved(FALSE, NoData, TRUE)
    ELSE IF a.kind = "empty" THEN Resolved(TRUE, NoData, TRUE)
    ELSE IF a.phrase \in AvailabilityIndicators THEN Resolved(TRUE, a, TRUE)
    ELSE IF a.dn \in {"missing", "none"} THEN Resolved(TRUE, a, TRUE)
    ELSE IF ExpiredDatetime(a.exp, t) THEN Resolved(TRUE, a, FALSE)
    ELSE IF a.ns THEN Resolved(FALSE, a, TRUE)
    ELSE IF a.created THEN Resolved(FALSE, a, TRUE)
    ELSE Resolved(TRUE, a, TRUE)

ResolveDomain(probe, a, t) ==
    IF probe THEN Resolved(FALSE, NoData, TRUE)
    ELSE IF a.kind \in {"nomatch", "error"} THEN Resolved(FALSE, NoData, TRUE)
    ELSE IF a.kind = "empty" THEN Resolved(TRUE, NoData, TRUE)
    ELSE IF a.phrase \in AvailabilityIndicators THEN Resolved(TRUE, a, TRUE)
    ELSE IF a.dn \in {"missing", "none"} THEN Resolved(TRUE, a, TRUE)
    ELSE IF ExpiredDatetime(a.exp, t) THEN Resolved(TRUE, a, FALSE)
    ELSE IF a.ns THEN Resolved(FALSE, a, TRUE)
    ELSE IF a.created THEN Resolved(FALSE, a, TRUE)
    ELSE Resolved(TRUE, a, TRUE)

(*************************** result cache *********************************)
(* utils.cache._cache, keyed by get_cache_key(domain): the md5 of the      *)
(* lowercased name, one key per normalized domain.                         *)
(* ttl: the ttl argument of the call that wrote the entry; no operation    *)
(* reads it                                                                *)
NoEntry == [present |-> FALSE, is_available |-> FALSE, whois_data |-> NoData,
            timestamp |-> NoTime, expires_at |-> NoTime, ttl |-> 0]

(* get_cached_domain finds a live entry *)
CacheHit(c, d, t) ==
    /\ c[d].present
    /\ IF c[d].expires_at # NoTime
       THEN t < c[d].expires_at
       ELSE t - c[d].timestamp < DefaultTtlHours * SecondsPerHour

(* the cache after get_cached_domain: an expired entry is deleted *)
GetCachedDomain(c, d, t) ==
    IF c[d].present /\ ~CacheHit(c, d, t) THEN [c EXCEPT ![d] = NoEntry] ELSE c

(* cache_domain(domain, data, ttl); a ttl of None or 0 stores expires_at = None *)
CacheDomain(c, d, avail, data, ttl, t) ==
    [c EXCEPT ![d] = [present |-> TRUE, is_available |-> avail, whois_data |-> data,
                      timestamp |-> t,
                      expires_at |-> IF ttl # 0 THEN t + ttl ELSE NoTime,
                      ttl |-> ttl]]

(* one lifetime for every result *)
TtlHoursFlat(avail) == TtlRegisteredHours

(* ttl_hours = 1 if result[0] else 24 *)
TtlHours(avail) == IF avail THEN TtlAvailableHours ELSE TtlRegisteredHours

(*************************** notifications ********************************)
DOMAIN_AVAILABLE == "domain_available"
DOMAIN_EXPIRING == "domain_expiring"
DOMAIN_CHANGED == "domain_changed"
DOMAIN_EXPIRED == "domain_expired"

(* statuses s with 'expir' in s.lower() and 'soon' in s.lower() *)
ExpiringSoonStatuses == {"expiring_soon"}

(* one call of notification_service.send_domain_notification with its     *)
(* data: the statuses (a status change) or the expiration date (the        *)
(* reminder); ok: the call returned                                        *)
Notify(w, kind, prev, cur, expiry, t, ok) ==
    [watch |-> w, kind |-> kind, previous_status |-> prev, current_status |-> cur,
     expiration_date |-> expiry, at |-> t, ok |-> ok]

(* the notification type chosen for a changed status *)
TransitionType(cur) ==
    IF cur = AVAILABLE THEN DOMAIN_AVAILABLE
    ELSE IF cur = "expired" THEN DOMAIN_EXPIRED
    ELSE IF cur \in ExpiringSoonStatuses THEN DOMAIN_EXPIRING
    ELSE DOMAIN_CHANGED

(* (expiration_date - datetime.utcnow()).days: timedelta.days rounds down *)
DaysUntilExpiry(exp, t) == (exp.at - t) \div SecondsPerDay

(* the expiration branch runs for a str only; fromisoformat rejects "bad"  *)
(* (ValueError) and an aware datetime minus utcnow() raises TypeError:     *)
(* both are caught and logged                                              *)
ExpiringSoon(exp, t) ==
    /\ exp.ty = "iso"
    /\ 0 < DaysUntilExpiry(exp, t)
    /\ DaysUntilExpiry(exp, t) <= ExpiryHorizonDays

(* a _check_for_domain_changes that lets the failure of its first call     *)
(* through: the calls after it are not made                                *)
CheckForDomainChangesAborting(w, prev, data, t, ok1, ok2) ==
    IF prev = None THEN << >>
    ELSE IF data.status # prev /\ ~ok1
    THEN << Notify(w, TransitionType(data.status), prev, data.status, NoTime, t, ok1) >>
    ELSE (IF data.status # prev
          THEN << Notify(w, TransitionType(data.status), prev, data.status, NoTime, t, ok1) >>
          ELSE << >>)
         \o
         (IF ExpiringSoon(data.exp, t)
          THEN << Notify(w, DOMAIN_EXPIRING, None, None, data.exp.at, t, ok2) >>
          ELSE << >>)

(* DomainMonitorService._check_for_domain_changes: the notification calls  *)
(* it makes, in order.  ok1, ok2: whether the first and second call return *)
(* (a raising call is logged and swallowed).                               *)
CheckForDomainChanges(w, prev, data, t, ok1, ok2) ==
    IF prev = None THEN << >>
    ELSE (IF data.status # prev
          THEN << Notify(w, TransitionType(data.status), prev, data.status, NoTime, t, ok1) >>
          ELSE << >>)
         \o
         (IF ExpiringSoon(data.exp, t)
          THEN << Notify(w, DOMAIN_EXPIRING, None, None, data.exp.at, t, ok2) >>
          ELSE << >>)

(*************************** DomainMonitorService *************************)
(* `await whois_service.lookup_domain(watch.domain)`: lookup_domain is a   *)
(* plain classmethod, so the call runs the query to its end and hands back *)
(* a dict (or raises HTTPException); awaiting the dict raises TypeError    *)
(* (object dict can't be used in 'await' expression).  Either way the      *)
(* statement raises.                                                       *)
AwaitLookup(res) == Raised

(* a domain_watches row *)
Row(d, u, active, freq, checked, status) ==
    [domain |-> d, user_id |-> u, is_active |-> active, check_frequency |-> freq,
     last_checked |-> checked, last_status |-> status,
     whois_data |-> WhoisData(None, ExpNone)]

(* one external WHOIS query, as the registry sees it; overlapped: the      *)
(* request behind it was received while another query for the same domain  *)
(* was outstanding                                                         *)
Lookup(d, t, by, w, overlapped) ==
    [domain |-> d, at |-> t, by |-> by, watch |-> w, overlapped |-> overlapped]

(* what lookup_domain concludes from answer a *)
FreshStatus(a, t) ==
    IF LookupDomain(a, t).raised THEN "raise" ELSE LookupDomain(a, t).data.status

(* the record of one check: who made it, for which watch (0: none), the    *)
(* registry's answer, the last_checked and last_status stored before, the  *)
(* verdict the lookup drew, whether the cache answered, whether the row    *)
(* was committed and the notification calls made                           *)
Check(d, w, t, by, a, before, prev, fresh, hit, wrote, sent) ==
    [domain |-> d, watch |-> w, at |-> t, by |-> by, answer |-> a,
     checked_before |-> before, previous_status |-> prev, fresh |-> fresh,
     hit |-> hit, wrote |-> wrote, sent |-> sent]

NoCheck == Check("", 0, NoTime, "", NoData, NoTime, None, "", FALSE, FALSE, << >>)

(* the verdict of is_domain_available as DomainMonitor reads it *)
Verdict(avail) == IF avail THEN AVAILABLE ELSE "taken"

(* a _process_watch whose error handler also switches the watch off *)
ProcessWatchDeactivating(w, a, by, overlapped, dbOk, ok1, ok2) ==
    LET res == AwaitLookup(LookupDomain(a, now))
        previous_status == watches[w].last_status
    IN /\ lookups' = Append(lookups, Lookup(watches[w].domain, now, by, w, overlapped))
       /\ lastCheck' = Check(watches[w].domain, w, now, by, a, watches[w].last_checked,
                             previous_status, FreshStatus(a, now), FALSE, FALSE, << >>)
       /\ events' = events
       /\ watches' = IF res.raised \/ ~dbOk
                     THEN [watches EXCEPT ![w].is_active = FALSE]
                     ELSE watches

(* DomainMonitorService._process_watch for watch w when the registry       *)
(* answers a.  dbOk: db.commit() succeeds.  An exception anywhere in the   *)
(* try is logged and the session rolled back.                              *)
ProcessWatch(w, a, by, overlapped, dbOk, ok1, ok2) ==
    LET res == AwaitLookup(LookupDomain(a, now))
        previous_status == watches[w].last_status
        done == ~res.raised /\ dbOk
        sent == IF done
                THEN CheckForDomainChanges(w, previous_status, res.data, now, ok1, ok2)
                ELSE << >>
    IN /\ lookups' = Append(lookups, Lookup(watches[w].domain, now, by, w, overlapped))
       /\ lastCheck' = Check(watches[w].domain, w, now, by, a, watches[w].last_checked,
                             previous_status, FreshStatus(a, now), FALSE, done, sent)
       /\ events' = events \o sent
       /\ watches' = IF done
                     THEN [watches EXCEPT ![w].last_checked = now,
                                          ![w].last_status = res.data.status,
                                          ![w].whois_data = res.data]
                     ELSE watches

(* the answers the registry gives in the runs explored *)
Healthy == Record("com", "", "lock", Exp("datetime", 40 * SecondsPerDay), TRUE, TRUE)

Expiring == Record("com", "", "none", Exp("iso", 5 * SecondsPerDay + SecondsPerHour), TRUE, TRUE)

Lapsed == Record("com", "", "none", Exp("datetime", 0 - SecondsPerDay), TRUE, TRUE)

Registry == {LookupError, EmptyAnswer, Healthy, Expiring, Lapsed}

(* the domain_watches table at start: a row with both check fields unset   *)
(* (nullable columns), a row as create_with_user writes it (last_checked   *)
(* set, last_status "unknown"), a deactivated row, and rows an earlier     *)
(* check has left                                                          *)
InitialRow(i) ==
    IF i = 1 THEN Row("a.com", 1, TRUE, DefaultCheckFrequency, NoTime, None)
    ELSE IF i = 2 THEN Row("a.com", 2, TRUE, DefaultCheckFrequency, 0, UNKNOWN)
    ELSE IF i = 3 THEN Row("b.com", 1, FALSE, MinCheckFrequency, 0, REGISTERED)
    ELSE Row("b.com", 2, TRUE, MinCheckFrequency, 0, REGISTERED)

(* crud_domain_watch.get_active_watches, in id order *)
RECURSIVE ActiveFrom(_)
ActiveFrom(i) ==
    IF i > NumWatches THEN << >>
    ELSE (IF watches[i].is_active THEN << i >> ELSE << >>) \o ActiveFrom(i + 1)

GetActiveWatches == ActiveFrom(1)

(* the loop task runs from one sleep to the next without yielding *)
LoopYielded == svc.pc # "iter"

(* DomainMonitorService.start *)
Start ==
    /\ ~svc.monitoring
    /\ svc' = [svc EXCEPT !.monitoring = TRUE, !.pc = "top", !.queue = << >>]
    /\ UNCHANGED <<now, watches, events, lookups, lastCheck, cache, reqs, inbox, mon, limiter>>

(* a stop() whose cancellation reaches the task in the middle of a cycle *)
StopAnywhere ==
    /\ svc.monitoring
    /\ svc' = [svc EXCEPT !.monitoring = FALSE, !.pc = "done", !.queue = << >>]
    /\ UNCHANGED <<now, watches, events, lookups, lastCheck, cache, reqs, inbox, mon, limiter>>

(* a stop() that clears the flag and neither cancels nor awaits the task *)
StopFlagOnly ==
    /\ svc.monitoring
    /\ LoopYielded
    /\ svc' = [svc EXCEPT !.monitoring = FALSE]
    /\ UNCHANGED <<now, watches, events, lookups, lastCheck, cache, reqs, inbox, mon, limiter>>

(* DomainMonitorService.stop: the flag, task.cancel(), await the task.     *)
(* The cancellation is delivered where the task is suspended (a sleep, or  *)
(* before its first step) and leaves the loop through it.                  *)
Stop ==
    /\ svc.monitoring
    /\ LoopYielded
    /\ svc' = [svc EXCEPT !.monitoring = FALSE, !.pc = "done", !.queue = << >>]
    /\ UNCHANGED <<now, watches, events, lookups, lastCheck, cache, reqs, inbox, mon, limiter>>

(* a loop whose handler lets the load error through: the task ends *)
MonitorLoopTopUnhandled(loaded) ==
    /\ svc.pc = "top"
    /\ svc.cycles < MaxCycles
    /\ svc' = IF ~svc.monitoring THEN [svc EXCEPT !.pc = "done"]
              ELSE IF ~loaded
              THEN [svc EXCEPT !.pc = "done", !.cycles = @ + 1, !.errors = @ + 1]
              ELSE [svc EXCEPT !.pc = IF GetActiveWatches = << >> THEN "sleep" ELSE "iter",
                               !.queue = GetActiveWatches, !.cycles = @ + 1,
                               !.raised = 0]
    /\ UNCHANGED <<now, watches, events, lookups, lastCheck, cache, reqs, inbox, mon, limiter>>

(* _monitor_loop from `while self._monitoring` to the first watch: load    *)
(* the active watches; loaded = FALSE when get_active_watches raises.      *)
MonitorLoopTop(loaded) ==
    /\ svc.pc = "top"
    /\ svc.cycles < MaxCycles
    /\ svc' = IF ~svc.monitoring THEN [svc EXCEPT !.pc = "done"]
              ELSE IF ~loaded
              THEN [svc EXCEPT !.pc = "backoff", !.cycles = @ + 1, !.errors = @ + 1]
              ELSE [svc EXCEPT !.pc = IF GetActiveWatches = << >> THEN "sleep" ELSE "iter",
                               !.queue = GetActiveWatches, !.cycles = @ + 1,
                               !.raised = 0]
    /\ UNCHANGED <<now, watches, events, lookups, lastCheck, cache, reqs, inbox, mon, limiter>>

(* one turn of `for watch in watches`: _process_watch, whose own handler   *)
(* and the loop's handler keep any exception inside the turn; raised       *)
(* counts the turns of this cycle in which one was raised                  *)
MonitorProcess(a, dbOk, ok1, ok2) ==
    /\ svc.pc = "iter"
    /\ ProcessWatch(Head(svc.queue), a, "monitor", FALSE, dbOk, ok1, ok2)
    /\ svc' = [svc EXCEPT !.queue = Tail(@),
                          !.pc = IF Tail(svc.queue) = << >> THEN "sleep" ELSE "iter",
                          !.raised = IF AwaitLookup(LookupDomain(a, now)).raised \/ ~dbOk
                                     THEN @ + 1 ELSE @]
    /\ UNCHANGED <<now, cache, reqs, inbox, mon, limiter>>

(* await asyncio.sleep(check_interval) *)
MonitorSleep ==
    /\ svc.pc = "sleep"
    /\ now' = now + DefaultCheckInterval
    /\ svc' = [svc EXCEPT !.pc = "top"]
    /\ UNCHANGED <<watches, events, lookups, lastCheck, cache, reqs, inbox, mon, limiter>>

(* except Exception: await asyncio.sleep(60) *)
MonitorBackoff ==
    /\ svc.pc = "backoff"
    /\ now' = now + ErrorBackoff
    /\ svc' = [svc EXCEPT !.pc = "top"]
    /\ UNCHANGED <<watches, events, lookups, lastCheck, cache, reqs, inbox, mon, limiter>>

(* a request of user u to check watch w now reaches the server while the   *)
(* loop task holds the event loop (the lookup of the watch at the head of  *)
(* the queue is outstanding: whois.whois blocks): it waits                 *)
Request(w, u) == [watch |-> w, user_id |-> u, during |-> watches[Head(svc.queue)].domain]

ReceiveWhileBusy(w, u) ==
    /\ svc.pc = "iter"
    /\ reqs < MaxRequests
    /\ reqs' = reqs + 1
    /\ inbox' = Append(inbox, Request(w, u))
    /\ UNCHANGED <<now, watches, events, lookups, lastCheck, cache, svc, mon, limiter>>

(* domain_watches.check_domain_now: get_watch for the caller (404 when the *)
(* watch is not theirs), then _process_watch and db.refresh                *)
CheckNow(w, u, overlapped, a, dbOk, ok1, ok2) ==
    /\ IF watches[w].user_id # u
       THEN UNCHANGED <<watches, events, lookups, lastCheck>>
       ELSE ProcessWatch(w, a, "check_now", overlapped, dbOk, ok1, ok2)
    /\ UNCHANGED <<now, cache, svc, mon, limiter>>

(* a request received while the loop task is suspended is handled at once *)
CheckDomainNow(w, u, a, dbOk, ok1, ok2) ==
    /\ LoopYielded
    /\ inbox = << >>
    /\ reqs < MaxRequests
    /\ reqs' = reqs + 1
    /\ UNCHANGED inbox
    /\ CheckNow(w, u, FALSE, a, dbOk, ok1, ok2)

(* a waiting request is handled once the loop task is suspended *)
CheckDomainNowQueued(a, dbOk, ok1, ok2) ==
    /\ LoopYielded
    /\ inbox # << >>
    /\ inbox' = Tail(inbox)
    /\ UNCHANGED reqs
    /\ CheckNow(Head(inbox).watch, Head(inbox).user_id,
                Head(inbox).during = watches[Head(inbox).watch].domain,
                a, dbOk, ok1, ok2)

(* RateLimiter(requests, window) as constructed (rate_limiter.py:11-21): a  *)
(* limiter of two requests a minute, with an empty requests_log.  The dict *)
(* is held as its number of keys (size), the place of each named client in *)
(* the dict's insertion order (pos, 0 when the key is absent) and that     *)
(* client's list of timestamps (log); the other keys belong to clients     *)
(* that call once.  admitted and answer record what the limiter did: the   *)
(* times of the calls it let through, per client, and its last answer.     *)
Requests == 2
Window == 60
Clients == {"c1", "c2"}
NewLimiter ==
    [size |-> 0, pos |-> [c \in Clients |-> 0], log |-> [c \in Clients |-> << >>],
     admitted |-> [c \in Clients |-> << >>], answer |-> "none", calls |-> 0]

(* DomainMonitor.__init__ (domain_monitor.py:21-24): no task, not running. *)
(* active_monitors maps a watch id to the index of its task in tasks, 0    *)
(* when the id is not a key; tasks lists every task created, with the      *)
(* watch it was made for and how far it has come.                          *)
NewMonitor ==
    [running |-> FALSE, active_monitors |-> [w \in WatchIds |-> 0],
     tasks |-> << >>, calls |-> 0]

Init ==
    /\ now = 0
    /\ watches = [i \in WatchIds |-> InitialRow(i)]
    /\ events = << >>
    /\ lookups = << >>
    /\ lastCheck = NoCheck
    /\ cache = [d \in Domains |-> NoEntry]
    /\ svc = [monitoring |-> FALSE, pc |-> "idle", queue |-> << >>, cycles |-> 0,
              errors |-> 0, raised |-> 0]
    /\ reqs = 0
    /\ inbox = << >>
    /\ mon = NewMonitor
    /\ limiter = NewLimiter

(* the outcomes of db.commit() and of the notification calls are drawn    *)
(* only in a run of _process_watch that reaches them                       *)
Outcomes(a) == IF AwaitLookup(LookupDomain(a, now)).raised THEN {TRUE} ELSE BOOLEAN

Next ==
    \/ Start
    \/ Stop
    \/ \E loaded \in BOOLEAN : MonitorLoopTop(loaded)
    \/ \E a \in Registry : \E dbOk, ok1, ok2 \in Outcomes(a) :
           MonitorProcess(a, dbOk, ok1, ok2)
    \/ MonitorSleep
    \/ MonitorBackoff
    \/ \E w \in WatchIds, u \in Users : ReceiveWhileBusy(w, u)
    \/ \E w \in WatchIds, u \in Users, a \in Registry : \E dbOk, ok1, ok2 \in Outcomes(a) :
           CheckDomainNow(w, u, a, dbOk, ok1, ok2)
    \/ \E a \in Registry : \E dbOk, ok1, ok2 \in Outcomes(a) :
           CheckDomainNowQueued(a, dbOk, ok1, ok2)

Spec == Init /\ [][Next]_vars

(*************************** the availability resolver ********************)
(* the answers the registry gives to the resolver *)
Unparsed == Record("none", "", "none", ExpNone, FALSE, FALSE)

NotFound == Record("missing", "not found", "none", ExpNone, FALSE, FALSE)

Parked == Record("com", "", "none", ExpNone, TRUE, FALSE)

(* a lapsed registration the registry still holds under a lock status *)
LapsedLocked == Record("com", "", "lock", Exp("datetime", 0 - SecondsPerDay), TRUE, TRUE)

AvailRegistry == {LookupError, NoMatchError, EmptyAnswer, Unparsed, NotFound,
                  Healthy, Lapsed, LapsedLocked, Parked}

(* is_domain_available(d) for a well-formed, normalized name.  probe:      *)
(* socket.gethostbyname resolves the name; a: what whois.whois answers     *)
(* when it is asked (the probe failed and the cache held nothing live).    *)
IsDomainAvailable(d, probe, a) ==
    LET hit == CacheHit(cache, d, now)
        res == ResolveDomain(probe, a, now)
        asked == ~hit /\ ~probe
    IN /\ reqs < MaxResolutions
       /\ reqs' = reqs + 1
       /\ cache' = IF hit THEN cache
                   ELSE IF res.cached
                   THEN CacheDomain(GetCachedDomain(cache, d, now), d, res.is_available,
                                    res.whois_data, TtlHours(res.is_available) * SecondsPerHour,
                                    now)
                   ELSE GetCachedDomain(cache, d, now)
       /\ lookups' = IF asked THEN Append(lookups, Lookup(d, now, "resolver", 0, FALSE))
                     ELSE lookups
       /\ lastCheck' = Check(d, 0, now, "resolver", IF asked THEN a ELSE NoData, NoTime, None,
                             Verdict(IF hit THEN cache[d].is_available ELSE res.is_available),
                             hit, FALSE, << >>)
       /\ UNCHANGED <<now, watches, events, svc, inbox, mon, limiter>>

(* one call of WHOISService.lookup_domain(d) outside the monitor (the      *)
(* search endpoint, update_domain_from_whois): the registry is asked every *)
(* time and the status is the one _determine_domain_status gives           *)
WhoisLookup(d, a) ==
    /\ reqs < MaxResolutions
    /\ reqs' = reqs + 1
    /\ lookups' = Append(lookups, Lookup(d, now, "lookup_domain", 0, FALSE))
    /\ lastCheck' = Check(d, 0, now, "lookup_domain", a, NoTime, None, FreshStatus(a, now),
                          FALSE, FALSE, << >>)
    /\ UNCHANGED <<now, watches, events, cache, svc, inbox, mon, limiter>>

(* h hours pass after a call *)
Elapse(h) ==
    /\ lastCheck.at = now
    /\ now' = now + h * SecondsPerHour
    /\ UNCHANGED <<watches, events, lookups, lastCheck, cache, svc, reqs, inbox, mon, limiter>>

NextAvail ==
    \/ \E d \in Domains, probe \in BOOLEAN, a \in AvailRegistry : IsDomainAvailable(d, probe, a)
    \/ \E h \in {TtlAvailableHours, TtlRegisteredHours} : Elapse(h)

SpecAvail == Init /\ [][NextAvail]_vars

(*************************** the resolver's argument **********************)
(* A name as the caller writes it: a sequence of pieces, each a run of     *)
(* characters the normalization treats as a unit.  The pieces of the       *)
(* arguments explored concatenate to at most one name.                     *)
Lower(piece) ==
    IF piece = "WWW." THEN "www."
    ELSE IF piece = "HTTPS://" THEN "https://"
    ELSE IF piece = "A.COM" THEN "a.com"
    ELSE piece

(* str.strip(): the blanks at both ends *)
RECURSIVE StripLeft(_)
StripLeft(seq) ==
    IF seq # << >> /\ Head(seq) = " " THEN StripLeft(Tail(seq)) ELSE seq

RECURSIVE StripRight(_)
StripRight(seq) ==
    IF seq # << >> /\ seq[Len(seq)] = " "
    THEN StripRight(SubSeq(seq, 1, Len(seq) - 1)) ELSE seq

(* split('/')[0] *)
RECURSIVE BeforeSlash(_)
BeforeSlash(seq) ==
    IF seq = << >> \/ Head(seq) = "/" THEN << >>
    ELSE << Head(seq) >> \o BeforeSlash(Tail(seq))

KeepPiece(piece) == piece \notin {"www.", "http://", "https://"}

(* domain.lower().strip(), then every 'www.', 'http://' and 'https://'     *)
(* replaced by nothing wherever it stands, then the part before the first  *)
(* slash                                                                   *)
NormalizeDomain(raw) ==
    BeforeSlash(SelectSeq(StripRight(StripLeft([i \in DOMAIN raw |-> Lower(raw[i])])),
                          KeepPiece))

(* re.match(r'^([a-z0-9]+(-[a-z0-9]+)*\.)+[a-z]{2,}$', domain) *)
WellFormed(seq) == Len(seq) = 1 /\ seq[1] \in Domains

ExampleUrl == << "HTTPS://", "WWW.", "A.COM", "/" >>

RawInputs ==
    { << >>, ExampleUrl, << "a.com" >>, << "www.", "b.com" >>,
      << "http://", "b.com", "/", "x" >>, << " ", "A.COM", " " >>,
      << "a_b.com" >>, << "http://" >>, << " " >> }

(* is_domain_available(raw): an empty argument and one that fails the      *)
(* format test both return (False, None) before the cache is looked at     *)
IsDomainAvailableRaw(raw, probe, a) ==
    IF raw = << >> \/ ~WellFormed(NormalizeDomain(raw))
    THEN /\ reqs < MaxResolutions
         /\ reqs' = reqs + 1
         /\ lastCheck' = Check("", 0, now, "resolver", NoData, NoTime, None, Verdict(FALSE),
                               FALSE, FALSE, << >>)
         /\ UNCHANGED <<now, watches, events, lookups, cache, svc, inbox, mon, limiter>>
    ELSE IsDomainAvailable(NormalizeDomain(raw)[1], probe, a)

NextInput ==
    \/ \E raw \in RawInputs, probe \in BOOLEAN, a \in {NoMatchError, Healthy} :
           IsDomainAvailableRaw(raw, probe, a)
    \/ \E h \in {TtlAvailableHours, TtlRegisteredHours} : Elapse(h)

SpecInput == Init /\ [][NextInput]_vars

(*************************** the watch table ******************************)
MaxCheckFrequency == 1440

(* a call of the service by user u: op, the watch id or the fields given *)
WatchRequest(op, w, u, d, freq, active) ==
    [op |-> op, watch |-> w, user_id |-> u, domain |-> d, check_frequency |-> freq,
     is_active |-> active]

(* crud get(db, id): the row with that id, or None (0) *)
CrudGet(w) == IF w \in DOMAIN watches THEN w ELSE 0

(* crud remove(db, id): the table without the row *)
CrudRemove(w) == [i \in DOMAIN watches \ {w} |-> watches[i]]

(* crud update(db, db_obj, obj_in) with a DomainWatchCreate: the fields of *)
(* the schema are written to the row                                       *)
CrudUpdate(w, d, freq, active) ==
    [watches EXCEPT ![w].domain = d, ![w].check_frequency = freq, ![w].is_active = active]

(* a get_watch that does not compare the owner *)
GetWatchAnyOwner(w, u) == CrudGet(w)

(* DomainMonitorService.get_watch: the row if it exists and is the user's *)
GetWatch(w, u) ==
    IF CrudGet(w) = 0 \/ watches[w].user_id # u THEN 0 ELSE w

(* get_by_domain_and_user(...).first() *)
GetByDomainAndUser(d, u) ==
    IF \E i \in DOMAIN watches : watches[i].domain = d /\ watches[i].user_id = u
    THEN CHOOSE i \in DOMAIN watches : watches[i].domain = d /\ watches[i].user_id = u
    ELSE 0

(* DomainWatchCreate(...): the schema's bounds on check_frequency *)
ValidFrequency(freq) == freq >= MinCheckFrequency /\ freq <= MaxCheckFrequency

(* the primary key the table gives the next row *)
NewId == NumWatches + reqs

(* a call reaches the service *)
ReceiveWatchRequest(req) ==
    /\ inbox = << >>
    /\ reqs < MaxApplications
    /\ reqs' = reqs + 1
    /\ inbox' = << req >>
    /\ UNCHANGED <<now, watches, events, lookups, lastCheck, cache, svc, mon, limiter>>

(* DomainMonitorService.create_watch with create_with_user: a schema       *)
(* error or a failed commit is rolled back and raised as HTTPException; a  *)
(* watch of the same domain and user is updated; otherwise a row is        *)
(* inserted with last_checked = utcnow() and last_status = "unknown"       *)
CreateWatch(dbOk) ==
    /\ inbox # << >>
    /\ Head(inbox).op = "create_watch"
    /\ inbox' = Tail(inbox)
    /\ LET r == Head(inbox)
           d == Lower(r.domain)
           old == GetByDomainAndUser(d, r.user_id)
       IN IF ~ValidFrequency(r.check_frequency) \/ ~dbOk
          THEN /\ watches' = watches
               /\ lastCheck' = Check(d, 0, now, "create_watch", NoData, NoTime, None, "raise",
                                     FALSE, FALSE, << >>)
          ELSE IF old # 0
          THEN /\ watches' = CrudUpdate(old, d, r.check_frequency, r.is_active)
               /\ lastCheck' = Check(d, old, now, "create_watch", NoData,
                                     watches[old].last_checked, watches[old].last_status,
                                     "updated", FALSE, TRUE, << >>)
          ELSE /\ watches' = watches @@
                              (NewId :> Row(d, r.user_id, r.is_active, r.check_frequency,
                                            now, UNKNOWN))
               /\ lastCheck' = Check(d, NewId, now, "create_watch", NoData, NoTime, None,
                                     "created", FALSE, TRUE, << >>)
    /\ UNCHANGED <<now, events, lookups, cache, svc, reqs, mon, limiter>>

(* DomainMonitorService.delete_watch: False when get_watch finds nothing,  *)
(* otherwise remove and True; a failed commit raises                       *)
DeleteWatch(dbOk) ==
    /\ inbox # << >>
    /\ Head(inbox).op = "delete_watch"
    /\ inbox' = Tail(inbox)
    /\ LET r == Head(inbox)
           found == GetWatch(r.watch, r.user_id)
       IN /\ watches' = IF found # 0 /\ dbOk THEN CrudRemove(r.watch) ELSE watches
          /\ lastCheck' = Check("", r.watch, now, "delete_watch", NoData, NoTime, None,
                                IF found = 0 THEN "False" ELSE IF dbOk THEN "True" ELSE "raise",
                                FALSE, found # 0 /\ dbOk, << >>)
    /\ UNCHANGED <<now, events, lookups, cache, svc, reqs, mon, limiter>>

(* a call of DomainMonitorService.get_watch *)
GetWatchCall ==
    /\ inbox # << >>
    /\ Head(inbox).op = "get_watch"
    /\ inbox' = Tail(inbox)
    /\ lastCheck' = Check("", Head(inbox).watch, now, "get_watch", NoData, NoTime, None,
                          IF GetWatch(Head(inbox).watch, Head(inbox).user_id) = 0
                          THEN "None" ELSE "found",
                          FALSE, FALSE, << >>)
    /\ UNCHANGED <<now, watches, events, lookups, cache, svc, reqs, mon, limiter>>

WatchRequests ==
    { WatchRequest("create_watch", 0, u, d, freq, active) :
        u \in Users, d \in {"A.COM", "b.com"},
        freq \in {MinCheckFrequency - 1, DefaultCheckFrequency}, active \in BOOLEAN }
    \cup
    { WatchRequest(op, w, u, "", 0, FALSE) :
        op \in {"delete_watch", "get_watch"}, w \in 1..(NumWatches + 1), u \in Users }

NextWatches ==
    \/ \E req \in WatchRequests : ReceiveWatchRequest(req)
    \/ \E dbOk \in BOOLEAN : CreateWatch(dbOk)
    \/ \E dbOk \in BOOLEAN : DeleteWatch(dbOk)
    \/ GetWatchCall

SpecWatches == Init /\ [][NextWatches]_vars

(*************************** the rate limiter *****************************)
MaxLoggedClients == 1000
KeptClients == 500

(* the timestamps of a list that are less than a window old (45-48) *)
InWindow(log, t) == SelectSeq(log, LAMBDA x : t - x < Window)

(* lines 64-68: once the dict holds more than 1000 keys, every key after   *)
(* the first 500 in insertion order is deleted                             *)
CleanUp(l) ==
    IF l.size > MaxLoggedClients
    THEN [l EXCEPT !.size = KeptClients,
                   !.pos = [c \in Clients |->
                              IF l.pos[c] > KeptClients THEN 0 ELSE l.pos[c]],
                   !.log = [c \in Clients |->
                              IF l.pos[c] > KeptClients THEN << >> ELSE l.log[c]]]
    ELSE l

(* a key is made for a client the dict does not hold (41-42) *)
WithKey(l, c) ==
    IF l.pos[c] = 0
    THEN [l EXCEPT !.size = l.size + 1, !.pos[c] = l.size + 1, !.log[c] = << >>]
    ELSE l

(* RateLimiter.__call__ for client c at the current time *)
LimiterCall(c) ==
    LET keyed == WithKey(limiter, c)
        kept == InWindow(keyed.log[c], now)
        pruned == [keyed EXCEPT !.log[c] = kept]
    IN /\ limiter.calls < MaxCalls
       /\ limiter' =
            IF Len(kept) >= Requests
            THEN [pruned EXCEPT !.answer = "429", !.calls = @ + 1]
            ELSE [CleanUp([pruned EXCEPT !.log[c] = Append(kept, now)])
                    EXCEPT !.admitted[c] = Append(@, now),
                           !.answer = "ok", !.calls = @ + 1]
       /\ UNCHANGED <<now, watches, events, lookups, lastCheck, cache, svc, reqs,
                      inbox, mon>>

(* n clients that the dict does not hold call once each; every one is let  *)
(* through, and the last of them may bring the dict over its limit         *)
OtherClientsCall(n) ==
    /\ limiter.calls < MaxCalls
    /\ limiter.size + n <= MaxLoggedClients + 1
    /\ limiter' = [CleanUp([limiter EXCEPT !.size = @ + n])
                     EXCEPT !.answer = "ok", !.calls = @ + 1]
    /\ UNCHANGED <<now, watches, events, lookups, lastCheck, cache, svc, reqs,
                   inbox, mon>>

(* time.time() moves on *)
LimiterWait(s) ==
    /\ limiter.calls < MaxCalls
    /\ now' = now + s
    /\ limiter' = [limiter EXCEPT !.calls = @ + 1]
    /\ UNCHANGED <<watches, events, lookups, lastCheck, cache, svc, reqs, inbox, mon>>

NextLimiter ==
    \/ \E c \in Clients : LimiterCall(c)
    \/ \E n \in {1, KeptClients} : OtherClientsCall(n)
    \/ \E s \in {1, Window} : LimiterWait(s)

SpecLimiter == Init /\ [][NextLimiter]_vars

(*************************** DomainMonitor ********************************)
(* task.cancel(): a task that has not finished is asked to end; a finished *)
(* task is left as it is                                                   *)
Cancel(task) ==
    IF task.state = "created" THEN [task EXCEPT !.state = "cancelling"] ELSE task

(* _start_watch (64-70): nothing for an id that is a key of                *)
(* active_monitors, else a task is created for the watch and stored        *)
StartWatch(m, w) ==
    IF m.active_monitors[w] # 0 THEN m
    ELSE [m EXCEPT !.tasks = Append(@, [watch |-> w, state |-> "created"]),
                   !.active_monitors[w] = Len(m.tasks) + 1]

RECURSIVE StartWatches(_, _)
StartWatches(m, seq) ==
    IF seq = << >> THEN m ELSE StartWatches(StartWatch(m, Head(seq)), Tail(seq))

(* start (26-38): returns when running, else sets the flag and starts a    *)
(* task for every active watch; the coroutine has no suspension point      *)
DomainMonitorStart ==
    /\ mon.calls < MaxMonitorCalls
    /\ mon' = IF mon.running
              THEN [mon EXCEPT !.calls = @ + 1]
              ELSE [StartWatches([mon EXCEPT !.running = TRUE], GetActiveWatches)
                      EXCEPT !.calls = @ + 1]
    /\ UNCHANGED <<now, watches, events, lookups, lastCheck, cache, svc, reqs,
                   inbox, limiter>>

(* stop (40-46): clears the flag, cancels every task held and empties the  *)
(* dict, without waiting for the tasks                                     *)
DomainMonitorStop ==
    /\ mon.calls < MaxMonitorCalls
    /\ mon' = [mon EXCEPT
                 !.running = FALSE,
                 !.tasks = [i \in DOMAIN mon.tasks |->
                              IF \E w \in WatchIds : mon.active_monitors[w] = i
                              THEN Cancel(mon.tasks[i]) ELSE mon.tasks[i]],
                 !.active_monitors = [w \in WatchIds |-> 0],
                 !.calls = @ + 1]
    /\ UNCHANGED <<now, watches, events, lookups, lastCheck, cache, svc, reqs,
                   inbox, limiter>>

(* add_watch (48-55): warns for an id already held, else starts a task,    *)
(* whether or not the monitor is running                                   *)
AddWatch(w) ==
    /\ mon.calls < MaxMonitorCalls
    /\ mon' = [StartWatch(mon, w) EXCEPT !.calls = @ + 1]
    /\ UNCHANGED <<now, watches, events, lookups, lastCheck, cache, svc, reqs,
                   inbox, limiter>>

(* remove_watch (57-62): cancels and forgets the task of an id held *)
RemoveWatch(w) ==
    /\ mon.calls < MaxMonitorCalls
    /\ mon' = IF mon.active_monitors[w] = 0
              THEN [mon EXCEPT !.calls = @ + 1]
              ELSE [mon EXCEPT !.tasks[mon.active_monitors[w]] = Cancel(@),
                               !.active_monitors[w] = 0,
                               !.calls = @ + 1]
    /\ UNCHANGED <<now, watches, events, lookups, lastCheck, cache, svc, reqs,
                   inbox, limiter>>

(* the event loop runs task i of _monitor_domain (72-126) for the first    *)
(* time: a task that was cancelled before it started ends cancelled; else  *)
(* line 76 reads settings.DOMAIN_CHECK_INTERVAL_MINUTES, which Settings    *)
(* does not define, and the AttributeError ends the task before the loop   *)
(* of line 79; nothing removes its id from active_monitors                 *)
MonitorDomain(i) ==
    /\ i \in DOMAIN mon.tasks
    /\ mon.tasks[i].state \in {"created", "cancelling"}
    /\ mon' = [mon EXCEPT !.tasks[i].state =
                 IF @ = "cancelling" THEN "cancelled" ELSE "failed"]
    /\ UNCHANGED <<now, watches, events, lookups, lastCheck, cache, svc, reqs,
                   inbox, limiter>>

(* a call creates at most one task for each watch *)
TaskIds == 1 .. (NumWatches * MaxMonitorCalls)

NextMonitor ==
    \/ DomainMonitorStart
    \/ DomainMonitorStop
    \/ \E w \in WatchIds : AddWatch(w)
    \/ \E w \in WatchIds : RemoveWatch(w)
    \/ \E i \in TaskIds : MonitorDomain(i)

SpecMonitor == Init /\ [][NextMonitor]_vars

(*************************** registry lookups alone ***********************)
NextWhois ==
    \/ \E d \in Domains, a \in AvailRegistry : WhoisLookup(d, a)
    \/ \E h \in {TtlAvailableHours, TtlRegisteredHours} : Elapse(h)

SpecWhois == Init /\ [][NextWhois]_vars

(*************************** the cache alone ******************************)
(* the ttl arguments given to cache_domain: the two is_domain_available    *)
(* passes, and zero                                                        *)
CacheTtls == {0, TtlAvailableHours * SecondsPerHour, TtlRegisteredHours * SecondsPerHour}

(* cache_domain(d, {is_available, whois_data}, ttl=ttl) *)
CachePut(d, avail, data, ttl) ==
    /\ reqs < MaxResolutions
    /\ reqs' = reqs + 1
    /\ cache' = CacheDomain(cache, d, avail, data, ttl, now)
    /\ lastCheck' = Check(d, 0, now, "cache_domain", data, NoTime, None, Verdict(avail),
                          FALSE, TRUE, << >>)
    /\ UNCHANGED <<now, watches, events, lookups, svc, inbox, mon, limiter>>

(* get_cached_domain(d): the data of a live entry, or None ("miss") after  *)
(* deleting an expired one                                                 *)
CacheGet(d) ==
    LET hit == CacheHit(cache, d, now)
    IN /\ reqs < MaxResolutions
       /\ reqs' = reqs + 1
       /\ cache' = GetCachedDomain(cache, d, now)
       /\ lastCheck' = Check(d, 0, now, "get_cached_domain",
                             IF hit THEN cache[d].whois_data ELSE NoData, NoTime, None,
                             IF hit THEN Verdict(cache[d].is_available) ELSE "miss",
                             hit, FALSE, << >>)
       /\ UNCHANGED <<now, watches, events, lookups, svc, inbox, mon, limiter>>

(* half an hour passes after a call *)
HalfHour ==
    /\ lastCheck.at = now
    /\ now' = now + SecondsPerHour \div 2
    /\ UNCHANGED <<watches, events, lookups, lastCheck, cache, svc, reqs, inbox, mon, limiter>>

NextCache ==
    \/ \E d \in Domains, avail \in BOOLEAN, data \in {NoData, Healthy}, ttl \in CacheTtls :
           CachePut(d, avail, data, ttl)
    \/ \E d \in Domains : CacheGet(d)
    \/ HalfHour
    \/ \E h \in {TtlAvailableHours, TtlRegisteredHours} : Elapse(h)

SpecCache == Init /\ [][NextCache]_vars

(*************************** change detection alone ***********************)
(* the arguments _check_for_domain_changes is applied to *)
PreviousStatuses == {None, REGISTERED}

ChangeData ==
    { WhoisData(st, exp) : st \in {AVAILABLE, REGISTERED},
                           exp \in {ExpNone, Expiring.exp,
                                    Exp("datetime", 5 * SecondsPerDay + SecondsPerHour)} }

(* which notification calls an application reaches *)
Reaches(prev, data) ==
    [first |-> prev # None /\ data.status # prev,
     second |-> prev # None /\ ExpiringSoon(data.exp, now)]

(* the whois_data argument as the record its expiration_date came from *)
ChangeAnswer(data) == Record("com", "", "none", data.exp, FALSE, FALSE)

(* one application of _check_for_domain_changes(db, watch, previous_status, *)
(* whois_data)                                                             *)
CheckChanges(w, prev, data, ok1, ok2) ==
    /\ reqs < MaxApplications
    /\ reqs' = reqs + 1
    /\ events' = events \o CheckForDomainChanges(w, prev, data, now, ok1, ok2)
    /\ lastCheck' = Check(watches[w].domain, w, now, "changes", ChangeAnswer(data), NoTime, prev,
                          data.status, FALSE, FALSE,
                          CheckForDomainChanges(w, prev, data, now, ok1, ok2))
    /\ UNCHANGED <<now, watches, lookups, cache, svc, inbox, mon, limiter>>

(* the time of one cycle passes after an application *)
NextCycle ==
    /\ lastCheck.at = now
    /\ now' = now + DefaultCheckInterval
    /\ UNCHANGED <<watches, events, lookups, lastCheck, cache, svc, reqs, inbox, mon, limiter>>

NextChanges ==
    \/ \E w \in WatchIds, prev \in PreviousStatuses, data \in ChangeData :
         \E ok1 \in (IF Reaches(prev, data).first THEN BOOLEAN ELSE {TRUE}),
            ok2 \in (IF Reaches(prev, data).second THEN BOOLEAN ELSE {TRUE}) :
              CheckChanges(w, prev, data, ok1, ok2)
    \/ NextCycle

SpecChanges == Init /\ [][NextChanges]_vars

(*************************** the write of a check alone *******************)
(* a write that keeps the assigned fields although the commit failed, and  *)
(* goes on to the change detection                                         *)
PersistCheckUnguarded(w, data, dbOk, ok1, ok2) ==
    /\ reqs < MaxApplications
    /\ reqs' = reqs + 1
    /\ watches' = [watches EXCEPT ![w].last_checked = now,
                                  ![w].last_status = data.status,
                                  ![w].whois_data = data]
    /\ events' = events \o CheckForDomainChanges(w, watches[w].last_status, data, now, ok1, ok2)
    /\ lastCheck' = Check(watches[w].domain, w, now, "persist", ChangeAnswer(data),
                          watches[w].last_checked, watches[w].last_status, data.status,
                          FALSE, dbOk,
                          CheckForDomainChanges(w, watches[w].last_status, data, now, ok1, ok2))
    /\ UNCHANGED <<now, lookups, cache, svc, inbox, mon, limiter>>

(* _process_watch from line 117 on, for a lookup result that has been      *)
(* delivered: the three fields are assigned and committed, then the change *)
(* detection runs; when db.commit() raises (dbOk = FALSE) the handler logs *)
(* and rolls back, and the change detection is not reached                 *)
PersistCheck(w, data, dbOk, ok1, ok2) ==
    LET sent == IF dbOk
                THEN CheckForDomainChanges(w, watches[w].last_status, data, now, ok1, ok2)
                ELSE << >>
    IN /\ reqs < MaxApplications
       /\ reqs' = reqs + 1
       /\ watches' = IF dbOk
                     THEN [watches EXCEPT ![w].last_checked = now,
                                          ![w].last_status = data.status,
                                          ![w].whois_data = data]
                     ELSE watches
       /\ events' = events \o sent
       /\ lastCheck' = Check(watches[w].domain, w, now, "persist", ChangeAnswer(data),
                             watches[w].last_checked, watches[w].last_status, data.status,
                             FALSE, dbOk, sent)
       /\ UNCHANGED <<now, lookups, cache, svc, inbox, mon, limiter>>

NextPersist ==
    \/ \E w \in WatchIds, data \in ChangeData, dbOk, ok1, ok2 \in BOOLEAN :
           PersistCheck(w, data, dbOk, ok1, ok2)
    \/ NextCycle

SpecPersist == Init /\ [][NextPersist]_vars

(*************************** the check-now endpoint ***********************)
(* watches.check_domain_watch_now (the router api.py mounts under          *)
(* /watches) for watch w and caller u: the watch is loaded, a caller who   *)
(* does not own it is refused, is_domain_available is asked for the        *)
(* watch's domain and update_last_checked stores the time and "available"  *)
(* or "taken"; the snapshot stays (the resolver's dict has no to_dict) and *)
(* no notification call is made.  The handler has no suspension point.     *)
CheckDomainWatchNow(w, u, probe, a, dbOk) ==
    LET d == watches[w].domain
        hit == CacheHit(cache, d, now)
        res == ResolveDomain(probe, a, now)
        asked == ~hit /\ ~probe
        status == Verdict(IF hit THEN cache[d].is_available ELSE res.is_available)
    IN /\ LoopYielded
       /\ inbox = << >>
       /\ reqs < MaxRequests
       /\ reqs' = reqs + 1
       /\ IF watches[w].user_id # u
          THEN UNCHANGED <<watches, lookups, lastCheck, cache>>
          ELSE /\ cache' = IF hit THEN cache
                           ELSE IF res.cached
                           THEN CacheDomain(GetCachedDomain(cache, d, now), d,
                                            res.is_available, res.whois_data,
                                            TtlHours(res.is_available) * SecondsPerHour, now)
                           ELSE GetCachedDomain(cache, d, now)
               /\ lookups' = IF asked
                             THEN Append(lookups, Lookup(d, now, "check_watch_now", w, FALSE))
                             ELSE lookups
               /\ watches' = IF dbOk
                             THEN [watches EXCEPT ![w].last_checked = now,
                                                  ![w].last_status = status]
                             ELSE watches
               /\ lastCheck' = Check(d, w, now, "check_watch_now",
                                     IF asked THEN a ELSE NoData,
                                     watches[w].last_checked, watches[w].last_status,
                                     status, hit, dbOk, << >>)
       /\ UNCHANGED <<now, events, svc, inbox, mon, limiter>>

NextCheckNow ==
    \/ Next
    \/ \E w \in WatchIds, u \in Users, probe \in BOOLEAN, a \in {NoMatchError, NotFound},
          dbOk \in BOOLEAN : CheckDomainWatchNow(w, u, probe, a, dbOk)

SpecCheckNow == Init /\ [][NextCheckNow]_vars

(*************************** properties of the monitor ********************)
(* the latest check was made by the monitor loop and its lookup produced a *)
(* classification                                                          *)
MonitorClassified == lastCheck.by = "monitor" /\ lastCheck.fresh # "raise"

(* C1: when the monitor checks a watch whose last_status is set and the    *)
(* fresh status differs from it, exactly one event is raised for that      *)
(* check, of the kind the transition gives (available: DOMAIN_AVAILABLE,   *)
(* expired: DOMAIN_EXPIRED, any other pair: DOMAIN_CHANGED); when the      *)
(* fresh status equals last_status no transition event is raised.          *)
C1_TransitionRaisesOneEvent ==
    (MonitorClassified /\ lastCheck.previous_status # None) =>
        IF lastCheck.fresh # lastCheck.previous_status
        THEN /\ Len(lastCheck.sent) = 1
             /\ lastCheck.sent[1].kind =
                    IF lastCheck.fresh = AVAILABLE THEN DOMAIN_AVAILABLE
                    ELSE IF lastCheck.fresh = "expired" THEN DOMAIN_EXPIRED
                    ELSE DOMAIN_CHANGED
        ELSE \A i \in DOMAIN lastCheck.sent : lastCheck.sent[i].kind = DOMAIN_EXPIRING

(* C2: the first-ever check of a watch (last_status unset) raises no event *)
(* whatever the classification is, and records the classification as the   *)
(* watch's last_status.                                                    *)
C2_FirstCheckRecordsBaseline ==
    (MonitorClassified /\ lastCheck.previous_status = None) =>
        /\ lastCheck.sent = << >>
        /\ watches[lastCheck.watch].last_status = lastCheck.fresh

(* C5: the monitor looks a watch up only when it is due: last_checked is   *)
(* unset, or the check time is at least last_checked plus the watch's own  *)
(* check_frequency (minutes).                                              *)
C5_OnlyDueWatchesChecked ==
    lastCheck.by = "monitor" =>
        \/ lastCheck.checked_before = NoTime
        \/ lastCheck.at >= lastCheck.checked_before
               + watches[lastCheck.watch].check_frequency * 60

(* C6: every check the monitor completes persists last_checked (the check  *)
(* time), last_status (the fresh status) and the record snapshot, also     *)
(* when the status did not change.                                         *)
C6_CheckPersists ==
    MonitorClassified =>
        /\ watches[lastCheck.watch].last_checked = lastCheck.at
        /\ watches[lastCheck.watch].last_status = lastCheck.fresh
        /\ watches[lastCheck.watch].whois_data =
               WhoisData(lastCheck.fresh, lastCheck.answer.exp)

(* C7: a monitor check whose record carries an expiration date within 30   *)
(* days in the future raises an expiring-soon event, whatever the status   *)
(* comparison gives.                                                       *)
C7_ExpiringSoonRaised ==
    (/\ MonitorClassified
     /\ lastCheck.answer.exp.ty # "none"
     /\ lastCheck.at < lastCheck.answer.exp.at
     /\ lastCheck.answer.exp.at <= lastCheck.at + ExpiryHorizonDays * SecondsPerDay) =>
        \E i \in DOMAIN lastCheck.sent : lastCheck.sent[i].kind = DOMAIN_EXPIRING

(* C3: when the existence probe does not succeed and the registry lookup   *)
(* fails entirely (an error or timeout, an empty answer, an answer from    *)
(* which nothing could be parsed), the resolver does not report the domain *)
(* available.                                                              *)
C3_FailedLookupNeverAvailable ==
    (/\ lastCheck.by = "resolver"
     /\ ~lastCheck.hit
     /\ lastCheck.answer \in {LookupError, EmptyAnswer, Unparsed}) =>
        lastCheck.fresh # AVAILABLE

(* C4: a request to check a domain that arrives while a lookup of the same *)
(* domain is outstanding shares that lookup: it causes no external query   *)
(* of its own.                                                             *)
C4_SingleFlight ==
    \A i \in DOMAIN lookups : ~lookups[i].overlapped

(* C8: however many cycles apply the change detection to a watch whose     *)
(* record keeps the same expiration date inside the horizon, at most one   *)
(* expiring-soon reminder is raised for that watch and date: no later      *)
(* cycle raises it again.                                                  *)
C8_OneReminderPerExpiry ==
    \A i, j \in DOMAIN events :
        ~(/\ events[i].kind = DOMAIN_EXPIRING
          /\ events[j].kind = DOMAIN_EXPIRING
          /\ events[i].watch = events[j].watch
          /\ events[i].expiration_date # NoTime
          /\ events[i].expiration_date = events[j].expiration_date
          /\ events[i].at < events[j].at)

(* C9: an error raised while one watch is processed does not end the       *)
(* cycle, and each watch processed after it in the same cycle whose lookup *)
(* is answered has its status update committed.                            *)
C9_ErrorDoesNotAbortCycle ==
    /\ (svc.raised > 0 /\ svc.queue # << >>) => svc.pc = "iter"
    /\ (/\ MonitorClassified
        /\ svc.raised - (IF lastCheck.wrote THEN 0 ELSE 1) > 0) => lastCheck.wrote

(* C10: an exception raised while the cycle is set up (loading the active  *)
(* watches) does not end the loop task: it goes to the backoff sleep, and  *)
(* the only steps out of that sleep are the wake-up ErrorBackoff seconds   *)
(* later, back at the head of the loop with the monitor still on, and      *)
(* stop(); while it sleeps the wake-up is always possible.                 *)
C10_BackoffThenNextCycle ==
    /\ [][ /\ (svc.pc = "top" /\ svc.monitoring /\ svc'.errors > svc.errors) =>
                 (svc'.pc = "backoff" /\ svc'.monitoring)
           /\ (svc.pc = "backoff" /\ svc' # svc) =>
                 \/ (svc'.pc = "top" /\ svc'.monitoring /\ now' = now + ErrorBackoff)
                 \/ (svc'.pc = "done" /\ ~svc'.monitoring) ]_vars
    /\ [](svc.pc = "backoff" => (svc.monitoring /\ ENABLED MonitorBackoff))
    /\ []((svc.pc = "top" /\ svc.monitoring /\ svc.cycles < MaxCycles) =>
             ENABLED MonitorLoopTop(TRUE))

C12_LoopExitsOnStop ==
    /\ [](~svc.monitoring => svc.pc \in {"idle", "done"})
    /\ []((svc.monitoring /\ svc.pc \in {"top", "sleep", "backoff"}) => ENABLED Stop)
    /\ [][~svc'.monitoring => svc'.cycles = svc.cycles]_vars

(* the loop was stopped after a cycle although more cycles were to come *)
C12_StoppedBetweenCycles ==
    /\ ~svc.monitoring
    /\ svc.pc = "done"
    /\ svc.cycles > 0
    /\ svc.cycles < MaxCycles

(*************************** properties of the resolver *******************)
(* the latest call of is_domain_available missed the cache and its probe   *)
(* resolved the name                                                       *)
ProbeSucceeded ==
    lastCheck.by = "resolver" /\ ~lastCheck.hit /\ lastCheck.answer = NoData

(* the latest call of is_domain_available missed the cache, its probe      *)
(* failed and the registry was asked                                       *)
ProbeFailed ==
    lastCheck.by = "resolver" /\ ~lastCheck.hit /\ lastCheck.answer # NoData

(* C13: a call of is_domain_available whose probe resolves the name        *)
(* reports the domain as not available (taken), whatever the registry      *)
(* would have answered, caches that verdict, and asks the registry for no  *)
(* record.                                                                 *)
C13_ProbeSuccessIsRegistered ==
    [][ (reqs' # reqs /\ ProbeSucceeded') =>
           /\ lastCheck'.fresh = "taken"
           /\ lookups' = lookups
           /\ cache'[lastCheck'.domain].present
           /\ ~cache'[lastCheck'.domain].is_available ]_vars

C13_ProbedWithoutLookup ==
    /\ ProbeSucceeded
    /\ lastCheck.fresh = "taken"
    /\ lookups = << >>
    /\ cache[lastCheck.domain].present

(* the latest call, on either path, put a parsed record before the         *)
(* classifier after a miss                                                 *)
ClassifiedRecord ==
    /\ lastCheck.by \in {"resolver", "lookup_domain"}
    /\ ~lastCheck.hit
    /\ lastCheck.answer.kind = "record"

(* C14: when the probe did not succeed and the registry returned a record  *)
(* whose text contains one of the availability phrases, the call reports   *)
(* the domain available, whatever the record's structured fields hold; on  *)
(* the is_domain_available path and on the lookup_domain path alike.       *)
C14_NoSuchRecordIsAvailable ==
    (ClassifiedRecord /\ lastCheck.answer.phrase \in AvailabilityIndicators) =>
        lastCheck.fresh = AVAILABLE

(* C15: a record without an availability phrase whose expiration date is   *)
(* in the past is classified registered (not available) when its status    *)
(* tokens include a lock token and available when they include none.       *)
C15_LapsedFollowsLock ==
    (/\ ClassifiedRecord
     /\ lastCheck.answer.phrase \notin AvailabilityIndicators
     /\ ExpiredDatetime(lastCheck.answer.exp, lastCheck.at)) =>
        IF lastCheck.answer.tok = "lock"
        THEN lastCheck.fresh \in {REGISTERED, "taken"}
        ELSE lastCheck.fresh = AVAILABLE

(* C16: for a registry answer reached after a failed probe,                *)
(* is_domain_available reports the domain available exactly when           *)
(* lookup_domain (through check_domain_availability) does for the same     *)
(* answer at the same time.                                                *)
C16_PathsAgree ==
    ProbeFailed =>
        ((lastCheck.fresh = AVAILABLE)
            <=> CheckDomainAvailability(lastCheck.answer, lastCheck.at).is_available)

(*************************** properties of the cache **********************)
(* C17: a get for a domain that holds an entry returns the entry's data    *)
(* unchanged and leaves the entry in place while less than the ttl given   *)
(* to the put has passed since the put, and returns a miss and removes the *)
(* entry once the ttl has passed, for every ttl given to the put.          *)
C17_PutThenGet ==
    [][ (/\ reqs' # reqs
         /\ lastCheck'.by = "get_cached_domain"
         /\ cache[lastCheck'.domain].present) =>
            LET e == cache[lastCheck'.domain]
            IN IF now - e.timestamp < e.ttl
               THEN /\ lastCheck'.hit
                    /\ lastCheck'.fresh = Verdict(e.is_available)
                    /\ lastCheck'.answer = e.whois_data
                    /\ cache' = cache
               ELSE /\ ~lastCheck'.hit
                    /\ lastCheck'.fresh = "miss"
                    /\ ~cache'[lastCheck'.domain].present ]_vars

(* expires_at minus the time of insertion *)
Lifetime(e) == e.expires_at - e.timestamp

(* C18: every entry is_domain_available writes carries an explicit expiry, *)
(* two entries with the same verdict have the same lifetime whatever their *)
(* data and time of insertion, and an available entry's lifetime is        *)
(* strictly less than a not-available (registered) entry's.                *)
C18_LifetimeByStatus ==
    \A d, e \in Domains :
        (cache[d].present /\ cache[e].present) =>
            /\ cache[d].expires_at # NoTime
            /\ (cache[d].is_available = cache[e].is_available) =>
                   Lifetime(cache[d]) = Lifetime(cache[e])
            /\ (cache[d].is_available /\ ~cache[e].is_available) =>
                   Lifetime(cache[d]) < Lifetime(cache[e])

(* an available and a registered entry are held at once, and two entries   *)
(* of one verdict with different data have been compared                   *)
C18_BothVerdictsCached ==
    /\ cache["a.com"].present
    /\ cache["b.com"].present
    /\ cache["a.com"].is_available
    /\ ~cache["b.com"].is_available
    /\ cache["a.com"].timestamp # cache["b.com"].timestamp

(* C19: the result of a lookup that failed (an error or a timeout of the   *)
(* registry query after a failed probe) is cached for no longer than an    *)
(* available result is.                                                    *)
C19_FailedLookupShortLived ==
    (ProbeFailed /\ lastCheck.answer.kind = "error") =>
        /\ cache[lastCheck.domain].present
        /\ cache[lastCheck.domain].timestamp = lastCheck.at
        /\ Lifetime(cache[lastCheck.domain]) <= TtlAvailableHours * SecondsPerHour

(* C20: once a domain has been looked up at the registry, it is not looked *)
(* up again before the lifetime of the cached result has passed; every     *)
(* result lives at least TtlAvailableHours, so two registry lookups of one *)
(* domain are at least that far apart, on every path and for every answer  *)
(* of the first lookup.                                                    *)
C20_NoLookupWithinTtl ==
    \A i, j \in DOMAIN lookups :
        (i < j /\ lookups[i].domain = lookups[j].domain) =>
            lookups[j].at - lookups[i].at >= TtlAvailableHours * SecondsPerHour

(*************************** frame and failure properties *****************)
(* the fields of a row no check may touch *)
Frame(r) == <<r.domain, r.user_id, r.check_frequency, r.is_active>>

(* C21: no step of the monitor loop (nor of a check-now request) deletes   *)
(* or adds a watch, and none changes the domain, owner, check interval or  *)
(* is_active of a watch.                                                   *)
C21_CycleKeepsFrame ==
    [][ /\ DOMAIN watches' = DOMAIN watches
        /\ \A w \in DOMAIN watches : Frame(watches'[w]) = Frame(watches[w]) ]_vars

(* a cycle has run over every active watch and sleeps *)
C21_CycleCompleted ==
    /\ svc.pc = "sleep"
    /\ svc.cycles > 0
    /\ lastCheck.by = "monitor"
    /\ Len(lookups) >= Len(GetActiveWatches)
    /\ \A w \in WatchIds : Frame(watches[w]) = Frame(InitialRow(w))

(* the calls of a sequence, had each of them returned *)
Delivered(seq) == [i \in DOMAIN seq |-> [seq[i] EXCEPT !.ok = TRUE]]

C23_InvalidDomainTellsApart ==
    /\ NormalizeDomain(ExampleUrl) = << "a.com" >>
    /\ (lastCheck.by = "resolver" /\ lastCheck.domain = "") =>
           lastCheck.fresh \notin {AVAILABLE, Verdict(FALSE)}

(*************************** properties of the watch table ****************)
(* C24: a row that create_watch inserts has the lowercased domain, the     *)
(* caller as owner, the requested check_frequency and is_active, and both  *)
(* last_checked and last_status unset.                                     *)
C24_NewWatchUnchecked ==
    [][ (/\ inbox # << >>
         /\ Head(inbox).op = "create_watch"
         /\ DOMAIN watches' # DOMAIN watches) =>
            LET r == Head(inbox)
                w == CHOOSE i \in DOMAIN watches' \ DOMAIN watches : TRUE
            IN /\ watches'[w].domain = Lower(r.domain)
               /\ watches'[w].user_id = r.user_id
               /\ watches'[w].check_frequency = r.check_frequency
               /\ watches'[w].is_active = r.is_active
               /\ watches'[w].last_checked = NoTime
               /\ watches'[w].last_status = None ]_vars

(* C25: delete_watch(w, u) removes row w and returns True exactly when the *)
(* row exists and belongs to u (and the commit succeeds), leaving every    *)
(* other row as it was; otherwise it returns False, or raises on a failed  *)
(* commit, and leaves the table unchanged; and get_watch(w, u) returns     *)
(* None exactly when no row w of user u exists, so it returns None after   *)
(* the deletion.                                                           *)
C25_DeleteOnlyOwn ==
    [][ /\ (inbox # << >> /\ Head(inbox).op = "delete_watch" /\ inbox' = << >>) =>
            LET r == Head(inbox)
                owned == r.watch \in DOMAIN watches /\ watches[r.watch].user_id = r.user_id
            IN IF owned /\ lastCheck'.fresh # "raise"
               THEN /\ lastCheck'.fresh = "True"
                    /\ DOMAIN watches' = DOMAIN watches \ {r.watch}
                    /\ \A i \in DOMAIN watches' : watches'[i] = watches[i]
               ELSE /\ owned \/ lastCheck'.fresh = "False"
                    /\ watches' = watches
        /\ (inbox # << >> /\ Head(inbox).op = "get_watch" /\ inbox' = << >>) =>
            LET r == Head(inbox)
                owned == r.watch \in DOMAIN watches /\ watches[r.watch].user_id = r.user_id
            IN (lastCheck'.fresh = "None") <=> ~owned ]_vars

(* a watch has been deleted by its owner and a get_watch for it has        *)
(* returned None                                                           *)
C25_DeletedThenMissing ==
    /\ lastCheck.by = "get_watch"
    /\ lastCheck.fresh = "None"
    /\ lastCheck.watch \in WatchIds
    /\ lastCheck.watch \notin DOMAIN watches

C30_AtMostRequestsPerWindow ==
    \A c \in Clients : \A i \in DOMAIN limiter.admitted[c] :
        Cardinality({ j \in DOMAIN limiter.admitted[c] :
                        /\ limiter.admitted[c][i] <= limiter.admitted[c][j]
                        /\ limiter.admitted[c][j] < limiter.admitted[c][i] + Window })
          <= Requests

(* the tasks of DomainMonitor that have been created and have not ended *)
LiveTasks == { i \in DOMAIN mon.tasks : mon.tasks[i].state \in {"created", "cancelling"} }

(* C27: at any time at most one monitoring task is alive: the watches are  *)
(* checked by one loop, not by one task per watch.                         *)
C27_AtMostOneLiveLoop == Cardinality(LiveTasks) <= 1

(* C29: while the monitor is running, every id held in active_monitors     *)
(* maps to a task that has not ended.                                      *)
C29_HeldTasksAlive ==
    mon.running =>
        \A w \in WatchIds :
            mon.active_monitors[w] # 0 =>
               mon.tasks[mon.active_monitors[w]].state = "created"

(* the notification calls for a changed status of watch w among those in   *)
(* seq                                                                     *)
TransitionEvents(seq, w) ==
    SelectSeq(seq, LAMBDA e : e.watch = w /\ e.kind \in {DOMAIN_AVAILABLE, DOMAIN_CHANGED,
                                                         DOMAIN_EXPIRED})

C10_CycleAfterBackoff ==
    /\ svc.pc = "iter"
    /\ svc.monitoring
    /\ svc.errors = 1
    /\ svc.cycles = 2
    /\ now = ErrorBackoff
====
